---- MODULE Spec2Model ----
(***************************************************************************)
(* The shared room of src/_worker.js: the Durable Object LeagueRoom, its   *)
(* two storage keys, its in-memory document, its set of stream writers and *)
(* the requests it serves; and the worker's handleLiveScores, which serves *)
(* /api/live-scores from ESPN's scoreboard without the room.               *)
(*                                                                         *)
(* A handler runs without interruption from one await to the next.  The    *)
(* room is a Durable Object (state.blockConcurrencyWhile, state.storage):  *)
(* while a handler awaits state.storage.get or state.storage.put the       *)
(* object's input gate is closed and no other event (a new request, a body *)
(* that has been read, a stream write that settled, a timer, an abort) is  *)
(* delivered to it.  An await on request.json() or on writer.write() is no *)
(* storage operation and leaves the gate open.                             *)
(*                                                                         *)
(* Timestamps are the millisecond clock readings that toISOString()        *)
(* prints; the printing is injective and order preserving, so a document   *)
(* carries the reading itself.  JSON.stringify takes a copy of the         *)
(* document at the moment it is called, so a frame carries the values the  *)
(* document had when the frame was built.                                  *)
(***************************************************************************)
EXTENDS Integers, Sequences, FiniteSets

\* ------------------------------------------------------------------ bounds
MaxReq   == 3      \* requests the room serves in one run
MaxTime  == 1      \* last reading of the clock
MaxBeats == 1      \* firings of the heartbeat timers in one run
MaxEvents == 2     \* events on the scoreboard
MaxCount == 2      \* touchdowns or interceptions in one stat line

Requests == 1..MaxReq
\* a writer is created by a request, and one request at least is no stream
Channels == 1..(MaxReq - 1)

\* ------------------------------------------------------------------ values

\* a value that may be undefined: << >> is undefined, <<v>> is the value v
Undefined == << >>
Some(v) == <<v>>

\* x || d for the values the room stores: only undefined is falsy among them
\* (an array, [] included, is truthy; so is a non-empty date string)
OrElse(x, d) == IF x = Undefined THEN d ELSE x[1]

\* the arrays a client posts as teams: order matters, [] is a valid array
TeamLists == {<< >>, <<2, 1>>}

\* an updatedAt a client puts in its body; no reading of the server clock
ClientStamp == 0 - 1

\* request bodies: text that is no JSON, JSON null, an object without teams,
\* an object whose teams is a string, an object whose teams is an array
Bodies ==
  {[tag |-> t, teams |-> << >>, updatedAt |-> Undefined] :
       t \in {"badjson", "null", "noteams", "string"}}
  \cup {[tag |-> "array", teams |-> T, updatedAt |-> u] :
       T \in TeamLists, u \in {Undefined, Some(ClientStamp)}}
NoBody == [tag |-> "none", teams |-> << >>, updatedAt |-> Undefined]

\* what reaches the room: the worker hands it the requests for its two paths,
\* with any method (PUT stands for every method that is neither GET nor POST)
Methods == {"GET", "POST", "PUT"}
Paths == {"/api/data", "/api/stream"}
NoRequest == [method |-> "none", path |-> "none"]

VARIABLES
  storage,     \* state.storage: key -> value, Undefined when the key is not set
  teams,       \* this.teams
  updatedAt,   \* this.updatedAt
  sessions,    \* this.sessions: the writers broadcast() writes to
  now,         \* the clock new Date() reads
  request,     \* per request: the method and the path it came with
  kind,        \* per request: the route fetch dispatched it to
  pc,          \* per request: where its handler is
  body,        \* per request: the body of a POST, once it has been read
  resp,        \* per request: the response it got
  writerOf,    \* per request: the writer handleStream created
  chan,        \* per writer: state of its stream
  frames,      \* per writer: the chunks written to it, in order
  consumed,    \* per writer: how many of its chunks the reader has taken
  heartbeat,   \* per writer: the setInterval timer is running
  listening,   \* per writer: close is registered on request.signal
  aborted,     \* per writer: request.signal has fired abort
  attempts,    \* per writer: calls of writer.write so far
  beats,       \* times a heartbeat timer has fired
  log,         \* history: the accepted writes, in the order they were stamped
  persisted,   \* history, per request: what its storage.put calls stored
  published,   \* history, per request: the document it handed to broadcast
  answeredAt,  \* history, per GET and stream: accepted writes when its document was built
  goneAt       \* history, per writer: requests arrived when its client went, or 0

VARIABLES
  scoreboard,      \* input: what the scoreboard fetch of ESPN gives
  summaries,       \* input, per event id: what the summary fetch of the game gives
  feedPc,          \* where handleLiveScores is
  games,           \* the league games found on the scoreboard
  allGamesFinal,   \* no league game is incomplete
  nextGame,        \* the place in games of the game to fetch next
  allPlayerStats,  \* the players collected so far, by key
  feedResp         \* the response of handleLiveScores

feedVars == <<scoreboard, summaries, feedPc, games, allGamesFinal, nextGame,
              allPlayerStats, feedResp>>
roomVars == <<storage, teams, updatedAt, sessions, now, request, kind, pc, body, resp,
              writerOf, chan, frames, consumed, heartbeat, listening, aborted, attempts,
              beats, log, persisted, published, answeredAt, goneAt>>
reqVars  == <<request, kind, pc, body, resp, writerOf>>
docVars  == <<storage, teams, updatedAt>>
chanVars == <<chan, frames, consumed, heartbeat, listening, aborted, attempts, beats>>
histVars == <<log, persisted, published, answeredAt, goneAt>>
vars == <<roomVars, feedVars>>

NoResp == [status |-> 0, doc |-> Undefined]
NoPut  == [teams |-> Undefined, updatedAt |-> Undefined]

\* ------------------------------------------------------------------ helpers

\* the waits of a handler on state.storage
StorageWaits == {"get_teams", "get_updatedAt", "post_put_teams", "post_put_updatedAt"}

\* a room whose storage calls leave the gate open (allowConcurrency)
InputGateAbsent == TRUE

\* the Durable Object's input gate: closed while a storage operation is awaited
InputGateOpen == \A r \in Requests : pc[r] \notin StorageWaits

\* a check of teams.length in place of Array.isArray: a string passes
IsArrayLike(b) == b.tag \in {"array", "string"}

\* Array.isArray(teams) after const { teams } = body || {}
IsArray(b) == b.tag = "array"

buildPayload == [teams |-> teams, updatedAt |-> updatedAt]

\* a JSON response: its status and the object it carries
jsonResponse(payload, status) == [status |-> status, doc |-> Some(payload)]

\* the two objects a rejected POST is answered with
InvalidJson == [error |-> "Invalid JSON body"]
InvalidPayload == [error |-> "Invalid payload: \"teams\" must be an array"]

\* the chunks: `data: <json>\n\n` and `: keep-alive\n\n`; by is the request
\* whose handler built the chunk
DataFrame(k, payload, r) == [kind |-> k, doc |-> Some(payload), by |-> r]
KeepAlive == [kind |-> "keepalive", doc |-> Undefined, by |-> 0]

\* writer.write(chunk) is accepted while the stream is neither errored nor closed
Writable(c) == chan[c] = "open"

\* requests and writers are taken in the order of their numbers
Started(r) == pc[r] # "idle"
NextRequest(r) == pc[r] = "idle" /\ (IF r = 1 THEN TRUE ELSE Started(r - 1))
FreshWriter(c) == chan[c] = "unused" /\ (IF c = 1 THEN TRUE ELSE chan[c - 1] # "unused")

\* ------------------------------------------------------------------ GET /api/live-scores

\* SCORING, in hundredths of a point (0.04 is 4, 0.1 is 10, 0.5 is 50, 4 is 400)
SCORING ==
  [passing_yards |-> 4, passing_td |-> 400, interception |-> 0 - 100,
   passing_300_bonus |-> 300,
   rushing_yards |-> 10, rushing_td |-> 600, rushing_100_bonus |-> 300,
   reception |-> 50, receiving_yards |-> 10, receiving_td |-> 600,
   receiving_100_bonus |-> 300]

LEAGUE_TEAMS == {"GB", "DET", "KC", "DAL", "CIN", "BAL", "CHI", "PHI"}

\* the events of a scoreboard: the abbreviations of the two competitors and
\* status.type.completed; the id of an event is its place on the scoreboard
Pairings == {<<"GB", "DET">>, <<"KC", "NYG">>}
Events == [teams : Pairings, completed : BOOLEAN]
EventLists == UNION {[1..n -> Events] : n \in 0..MaxEvents}

\* what the scoreboard fetch gives: the fetch rejects; the body is no JSON;
\* the body is JSON that cannot be walked (null, events that is no list, an
\* event that is null); or a scoreboard with its events (a JSON object
\* without events reads as a scoreboard with no events: events || [])
ScoreboardFailures == {"unreachable", "notjson", "malformed"}
Scoreboards ==
  {[tag |-> t, events |-> << >>] : t \in ScoreboardFailures}
  \cup {[tag |-> "ok", events |-> es] : es \in EventLists}

\* the stats of a player, as parsePlayerStats keeps them
ZeroStats ==
  [passing_yards |-> 0, passing_tds |-> 0, interceptions |-> 0,
   rushing_yards |-> 0, rushing_tds |-> 0,
   receptions |-> 0, receiving_yards |-> 0, receiving_tds |-> 0]

\* the athlete lines of a boxscore, category by category, for a player with
\* the stats st: the stats array of a line is positional (passing: C/ATT, YDS,
\* AVG, TD, INT, SACKS, QBR, RTG; rushing: CAR, YDS, AVG, TD, LONG; receiving:
\* REC, YDS, AVG, TD, LONG, TGTS)
Boxscore(name, team, st) ==
  << [name |-> name, team |-> team, type |-> "passing",
      stats |-> <<0, st.passing_yards, 0, st.passing_tds, st.interceptions, 0, 0, 0>>],
     [name |-> name, team |-> team, type |-> "rushing",
      stats |-> <<0, st.rushing_yards, 0, st.rushing_tds, 0>>],
     [name |-> name, team |-> team, type |-> "receiving",
      stats |-> <<st.receptions, st.receiving_yards, 0, st.receiving_tds, 0, 0>>],
     [name |-> name, team |-> team, type |-> "fumbles",
      stats |-> <<1, 1, 0>>] >>

\* what the summary fetch of one game gives: the fetch rejects; the body is no
\* JSON; the body is JSON whose boxscore cannot be walked; JSON without
\* boxscore.players; or a boxscore with its athlete lines
SummaryFailures == {"unreachable", "notjson", "malformed"}
Summary(tag, lines) == [tag |-> tag, lines |-> lines]

\* the stat lines the runs of the feed draw from: nothing, the quarterback and
\* the receiver of the two scoring scenarios
Quarterback == [ZeroStats EXCEPT !.passing_yards = 320, !.passing_tds = 2,
                                 !.interceptions = 1]
Receiver == [ZeroStats EXCEPT !.receptions = 5, !.receiving_yards = 100,
                              !.receiving_tds = 1]
FeedStats == {ZeroStats, Quarterback, Receiver}

\* the stat lines the runs of the scoring draw from: every combination of
\* yardages on both sides of the thresholds and of small counts
PointsStats ==
  [passing_yards : {0, 4, 299, 300, 320}, passing_tds : 0..MaxCount,
   interceptions : 0..MaxCount,
   rushing_yards : {0, 99, 100}, rushing_tds : 0..MaxCount,
   receptions : {0, 5}, receiving_yards : {0, 99, 100}, receiving_tds : 0..MaxCount]

\* the player of the game with event id i is named i and plays for GB
SummariesOf(i, S) ==
  {Summary(t, << >>) : t \in SummaryFailures \cup {"noboxscore"}}
  \cup {Summary("ok", Boxscore(i, "GB", st)) : st \in S}

NoScoreboard == [tag |-> "none", events |-> << >>]
NoSummary == Summary("none", << >>)
NoPlayers == [k \in {} |-> ZeroStats]

\* ------------------------------------------------------------------ Init

\* constructor: empty storage, so teams = [] and updatedAt = now
RoomInit ==
  /\ storage = [teams |-> Undefined, updatedAt |-> Undefined]
  /\ now = 0
  /\ teams = << >>
  /\ updatedAt = 0
  /\ sessions = {}
  /\ request = [r \in Requests |-> NoRequest]
  /\ kind = [r \in Requests |-> "none"]
  /\ pc = [r \in Requests |-> "idle"]
  /\ body = [r \in Requests |-> NoBody]
  /\ resp = [r \in Requests |-> NoResp]
  /\ writerOf = [r \in Requests |-> 0]
  /\ chan = [c \in Channels |-> "unused"]
  /\ frames = [c \in Channels |-> << >>]
  /\ consumed = [c \in Channels |-> 0]
  /\ heartbeat = [c \in Channels |-> FALSE]
  /\ listening = [c \in Channels |-> FALSE]
  /\ aborted = [c \in Channels |-> FALSE]
  /\ attempts = [c \in Channels |-> 0]
  /\ beats = 0
  /\ log = << >>
  /\ persisted = [r \in Requests |-> NoPut]
  /\ published = [r \in Requests |-> Undefined]
  /\ answeredAt = [r \in Requests |-> 0]
  /\ goneAt = [c \in Channels |-> 0]

\* ------------------------------------------------------------------ clock

Tick ==
  /\ now < MaxTime
  /\ now' = now + 1
  /\ UNCHANGED feedVars
  /\ UNCHANGED <<docVars, sessions, reqVars, chanVars, histVars>>

\* ------------------------------------------------------------------ fetch

\* fetch: /api/data goes to handleGet or handlePost by its method, and to
\* 405 with any other method; /api/stream with GET goes to handleStream;
\* everything else is answered 404
Route(m, p) ==
  IF p = "/api/data"
    THEN (IF m = "GET" THEN "GET" ELSE IF m = "POST" THEN "POST" ELSE "405")
    ELSE IF p = "/api/stream" /\ m = "GET" THEN "STREAM" ELSE "404"

\* new Response('Method Not Allowed', {status: 405}) and
\* new Response('Not Found', {status: 404}): no JSON document
MethodNotAllowed == [status |-> 405, doc |-> Undefined]
NotFound == [status |-> 404, doc |-> Undefined]

\* fetch answers the request itself: no handler runs
fetchRefused(r, m, p) ==
  /\ InputGateOpen
  /\ NextRequest(r)
  /\ Route(m, p) \in {"405", "404"}
  /\ request' = [request EXCEPT ![r] = [method |-> m, path |-> p]]
  /\ kind' = [kind EXCEPT ![r] = Route(m, p)]
  /\ resp' = [resp EXCEPT ![r] =
                IF Route(m, p) = "405" THEN MethodNotAllowed ELSE NotFound]
  /\ pc' = [pc EXCEPT ![r] = "done"]
  /\ UNCHANGED feedVars
  /\ UNCHANGED <<docVars, sessions, now, body, writerOf, chanVars, histVars>>

\* ------------------------------------------------------------------ GET /api/data

\* (await storage.get('teams')) || [] and (await storage.get('updatedAt')) || now
loadTeams == OrElse(storage.teams, << >>)

\* a load that stamps the document it returns with the time of the read
loadRestamped == now
loadUpdatedAt == OrElse(storage.updatedAt, now)

\* fetch dispatches to handleGet, which calls storage.get('teams') and waits
fetchGet(r) ==
  /\ InputGateOpen
  /\ NextRequest(r)
  /\ request' = [request EXCEPT ![r] = [method |-> "GET", path |-> "/api/data"]]
  /\ kind' = [kind EXCEPT ![r] = "GET"]
  /\ pc' = [pc EXCEPT ![r] = "get_teams"]
  /\ UNCHANGED feedVars
  /\ UNCHANGED <<docVars, sessions, now, body, resp, writerOf, chanVars, histVars>>

\* this.teams = (await storage.get('teams')) || []; then storage.get('updatedAt')
handleGetTeams(r) ==
  /\ pc[r] = "get_teams"
  /\ teams' = loadTeams
  /\ pc' = [pc EXCEPT ![r] = "get_updatedAt"]
  /\ UNCHANGED feedVars
  /\ UNCHANGED <<storage, updatedAt, sessions, now, request, kind, body, resp, writerOf,
                 chanVars, histVars>>

\* this.updatedAt = (await storage.get('updatedAt')) || now; return the payload
handleGetUpdatedAt(r) ==
  /\ pc[r] = "get_updatedAt"
  /\ updatedAt' = loadUpdatedAt
  /\ resp' = [resp EXCEPT ![r] =
                jsonResponse([teams |-> teams, updatedAt |-> updatedAt'], 200)]
  /\ pc' = [pc EXCEPT ![r] = "done"]
  /\ answeredAt' = [answeredAt EXCEPT ![r] = Len(log)]
  /\ UNCHANGED feedVars
  /\ UNCHANGED <<storage, teams, sessions, now, request, kind, body, writerOf, chanVars,
                 log, persisted, published, goneAt>>

\* ------------------------------------------------------------------ POST /api/data

\* fetch dispatches to handlePost, which waits for request.json()
fetchPost(r) ==
  /\ InputGateOpen
  /\ NextRequest(r)
  /\ request' = [request EXCEPT ![r] = [method |-> "POST", path |-> "/api/data"]]
  /\ kind' = [kind EXCEPT ![r] = "POST"]
  /\ pc' = [pc EXCEPT ![r] = "post_json"]
  /\ UNCHANGED feedVars
  /\ UNCHANGED <<docVars, sessions, now, body, resp, writerOf, chanVars, histVars>>

Reverse(s) == [i \in 1..Len(s) |-> s[Len(s) + 1 - i]]

\* a handler that reverses the array it was given
ReversedTeams(b) == Reverse(b.teams)

\* a handler that takes updatedAt from the body when the body has one
StampFromBody(b) == OrElse(b.updatedAt, now)

\* const { teams } = body || {}: the array this.teams is set to
AssignedTeams(b) == b.teams

\* the stamp of an accepted write: new Date().toISOString(), whatever b holds
Stamp(b) == now

\* the body b has been read: 400 when it is no JSON or teams is no array;
\* otherwise assign this.teams and this.updatedAt and call storage.put('teams')
handlePostJson(r, b) ==
  /\ InputGateOpen
  /\ pc[r] = "post_json"
  /\ body' = [body EXCEPT ![r] = b]
  /\ IF b.tag = "badjson" \/ ~IsArray(b)
       THEN /\ resp' = [resp EXCEPT ![r] =
                         IF b.tag = "badjson" THEN jsonResponse(InvalidJson, 400)
                                              ELSE jsonResponse(InvalidPayload, 400)]
            /\ pc' = [pc EXCEPT ![r] = "done"]
            /\ UNCHANGED <<docVars, log, persisted>>
       ELSE /\ teams' = AssignedTeams(b)
            /\ updatedAt' = Stamp(b)
            /\ storage' = [storage EXCEPT !.teams = Some(teams')]
            /\ persisted' = [persisted EXCEPT ![r].teams = Some(teams')]
            /\ log' = Append(log, [by |-> r, teams |-> b.teams, updatedAt |-> now])
            /\ pc' = [pc EXCEPT ![r] = "post_put_teams"]
            /\ UNCHANGED resp
  /\ UNCHANGED feedVars
  /\ UNCHANGED <<sessions, now, request, kind, writerOf, chanVars, published, answeredAt, goneAt>>

\* storage.put('teams') has settled: call storage.put('updatedAt', this.updatedAt)
handlePostPutUpdatedAt(r) ==
  /\ pc[r] = "post_put_teams"
  /\ storage' = [storage EXCEPT !.updatedAt = Some(updatedAt)]
  /\ persisted' = [persisted EXCEPT ![r].updatedAt = Some(updatedAt)]
  /\ pc' = [pc EXCEPT ![r] = "post_put_updatedAt"]
  /\ UNCHANGED feedVars
  /\ UNCHANGED <<teams, updatedAt, sessions, now, request, kind, body, resp, writerOf,
                 chanVars, log, published, answeredAt, goneAt>>

\* a broadcast whose rejected writes are not caught: no writer leaves the set
broadcastNoCatch(payload, r) ==
  /\ frames' = [c \in Channels |->
                  IF c \in sessions /\ Writable(c)
                    THEN Append(frames[c], DataFrame("broadcast", payload, r))
                    ELSE frames[c]]
  /\ attempts' = [c \in Channels |->
                  IF c \in sessions THEN attempts[c] + 1 ELSE attempts[c]]
  /\ sessions' = sessions

\* broadcast(payloadString): one write of the same chunk to every writer of
\* the set; a write that rejects removes its writer from the set
broadcast(payload, r) ==
  /\ frames' = [c \in Channels |->
                  IF c \in sessions /\ Writable(c)
                    THEN Append(frames[c], DataFrame("broadcast", payload, r))
                    ELSE frames[c]]
  /\ attempts' = [c \in Channels |->
                  IF c \in sessions THEN attempts[c] + 1 ELSE attempts[c]]
  /\ sessions' = {c \in sessions : Writable(c)}

\* storage.put('updatedAt') has settled: broadcast the payload and return it
handlePostBroadcast(r) ==
  /\ pc[r] = "post_put_updatedAt"
  /\ broadcast(buildPayload, r)
  /\ published' = [published EXCEPT ![r] = Some(buildPayload)]
  /\ resp' = [resp EXCEPT ![r] = jsonResponse(buildPayload, 200)]
  /\ pc' = [pc EXCEPT ![r] = "done"]
  /\ UNCHANGED feedVars
  /\ UNCHANGED <<docVars, now, request, kind, body, writerOf, chan, consumed, heartbeat,
                 listening, aborted, beats, log, persisted, answeredAt, goneAt>>

\* ------------------------------------------------------------------ GET /api/stream

\* fetch dispatches to handleStream: a new writer joins the set, the payload
\* is built from this.teams and this.updatedAt and written as the first chunk;
\* the handler then waits for that write
fetchStream(r, c) ==
  /\ InputGateOpen
  /\ NextRequest(r)
  /\ FreshWriter(c)
  /\ chan' = [chan EXCEPT ![c] = "open"]
  /\ sessions' = sessions \cup {c}
  /\ frames' = [frames EXCEPT ![c] = <<DataFrame("initial", buildPayload, r)>>]
  /\ attempts' = [attempts EXCEPT ![c] = 1]
  /\ writerOf' = [writerOf EXCEPT ![r] = c]
  /\ request' = [request EXCEPT ![r] = [method |-> "GET", path |-> "/api/stream"]]
  /\ kind' = [kind EXCEPT ![r] = "STREAM"]
  /\ pc' = [pc EXCEPT ![r] = "stream_write"]
  /\ answeredAt' = [answeredAt EXCEPT ![r] = Len(log)]
  /\ UNCHANGED feedVars
  /\ UNCHANGED <<docVars, now, body, resp, consumed, heartbeat, listening,
                 aborted, beats, log, persisted, published, goneAt>>

\* the reader of the response takes the chunks written so far: their writes
\* settle
Consume(c) ==
  /\ InputGateOpen
  /\ chan[c] = "open"
  /\ ~aborted[c]
  /\ consumed[c] < Len(frames[c])
  /\ consumed' = [consumed EXCEPT ![c] = Len(frames[c])]
  /\ UNCHANGED feedVars
  /\ UNCHANGED <<docVars, sessions, now, reqVars, chan, frames, heartbeat,
                 listening, aborted, attempts, beats, histVars>>

\* the write of the first chunk has settled: start the heartbeat timer,
\* register close on request.signal, return the response
handleStreamWritten(r) ==
  /\ InputGateOpen
  /\ pc[r] = "stream_write"
  /\ consumed[writerOf[r]] >= 1
  /\ heartbeat' = [heartbeat EXCEPT ![writerOf[r]] = TRUE]
  /\ listening' = [listening EXCEPT ![writerOf[r]] = TRUE]
  /\ resp' = [resp EXCEPT ![r] = [status |-> 200, doc |-> Undefined]]
  /\ pc' = [pc EXCEPT ![r] = "done"]
  /\ UNCHANGED feedVars
  /\ UNCHANGED <<docVars, sessions, now, request, kind, body, writerOf, chan, frames,
                 consumed, aborted, attempts, beats, histVars>>

\* the timer fires: writer.write(keep-alive).catch(() => {})
heartbeatTick(c) ==
  /\ InputGateOpen
  /\ heartbeat[c]
  /\ beats < MaxBeats
  /\ beats' = beats + 1
  /\ attempts' = [attempts EXCEPT ![c] = attempts[c] + 1]
  /\ frames' = [frames EXCEPT ![c] =
                  IF Writable(c) THEN Append(frames[c], KeepAlive) ELSE frames[c]]
  /\ UNCHANGED feedVars
  /\ UNCHANGED <<docVars, sessions, now, reqVars, chan, consumed, heartbeat,
                 listening, aborted, histVars>>

\* close(): clearInterval, sessions.delete(writer), writer.close().catch(...)
close(c) ==
  /\ heartbeat' = [heartbeat EXCEPT ![c] = FALSE]
  /\ sessions' = sessions \ {c}
  /\ chan' = [chan EXCEPT ![c] = IF chan[c] = "open" THEN "closed" ELSE chan[c]]

\* the requests that have reached the room
Arrived == Cardinality({r \in Requests : Started(r)})

\* request.signal fires abort: close() runs when it is registered by then,
\* and a listener registered after the event never runs
Abort(c) ==
  /\ InputGateOpen
  /\ chan[c] # "unused"
  /\ ~aborted[c]
  /\ aborted' = [aborted EXCEPT ![c] = TRUE]
  /\ IF listening[c]
       THEN close(c)
       ELSE UNCHANGED <<heartbeat, sessions, chan>>
  /\ goneAt' = [goneAt EXCEPT ![c] = IF goneAt[c] = 0 THEN Arrived ELSE goneAt[c]]
  /\ UNCHANGED feedVars
  /\ UNCHANGED <<docVars, now, reqVars, frames, consumed, listening, attempts,
                 beats, log, persisted, published, answeredAt>>

\* the chunks of a writer the reader has not taken
Unconsumed(c) == {frames[c][i] : i \in (consumed[c] + 1)..Len(frames[c])}

\* the stream of a writer fails: every write that has not settled rejects.
\* A rejected broadcast write removes the writer from the set, a rejected
\* keep-alive write is ignored, and the rejected first write throws out of
\* handleStream (the request fails, nothing is cleaned up)
ChannelFail(c) ==
  /\ InputGateOpen
  /\ chan[c] = "open"
  /\ chan' = [chan EXCEPT ![c] = "errored"]
  /\ sessions' = IF \E f \in Unconsumed(c) : f.kind = "broadcast"
                   THEN sessions \ {c} ELSE sessions
  /\ IF \E r \in Requests : pc[r] = "stream_write" /\ writerOf[r] = c /\ consumed[c] = 0
       THEN /\ pc' = [r \in Requests |->
                        IF pc[r] = "stream_write" /\ writerOf[r] = c THEN "failed" ELSE pc[r]]
            /\ resp' = [r \in Requests |->
                        IF pc[r] = "stream_write" /\ writerOf[r] = c
                          THEN [status |-> 500, doc |-> Undefined] ELSE resp[r]]
       ELSE UNCHANGED <<pc, resp>>
  /\ goneAt' = [goneAt EXCEPT ![c] = IF goneAt[c] = 0 THEN Arrived ELSE goneAt[c]]
  /\ UNCHANGED feedVars
  /\ UNCHANGED <<docVars, now, request, kind, body, writerOf, frames, consumed, heartbeat,
                 listening, aborted, attempts, beats, log, persisted, published,
                 answeredAt>>

\* ------------------------------------------------------------------ handleLiveScores

\* gameTeams.length === 2: both competitors are league teams
IsLeagueGame(e) == \A i \in 1..2 : e.teams[i] \in LEAGUE_TEAMS

\* the loop over scoreboardData.events, from place i on: the league games in
\* the order of the scoreboard
RECURSIVE leagueGames(_, _)
leagueGames(events, i) ==
  IF i > Len(events) THEN << >>
  ELSE IF IsLeagueGame(events[i])
    THEN <<[id |-> i, isComplete |-> events[i].completed]>> \o leagueGames(events, i + 1)
    ELSE leagueGames(events, i + 1)

\* one athlete line read into the stats of its player, by position
parseLine(st, l) ==
  IF l.type = "passing" /\ Len(l.stats) >= 8
    THEN [st EXCEPT !.passing_yards = l.stats[2], !.passing_tds = l.stats[4],
                    !.interceptions = l.stats[5]]
  ELSE IF l.type = "rushing" /\ Len(l.stats) >= 4
    THEN [st EXCEPT !.rushing_yards = l.stats[2], !.rushing_tds = l.stats[4]]
  ELSE IF l.type = "receiving" /\ Len(l.stats) >= 4
    THEN [st EXCEPT !.receptions = l.stats[1], !.receiving_yards = l.stats[2],
                    !.receiving_tds = l.stats[4]]
  ELSE st

\* the loops over the athlete lines: players[playerKey] is created with zero
\* stats when the key is new, and the line is read into it
RECURSIVE parseLines(_, _)
parseLines(lines, players) ==
  IF lines = << >> THEN players
  ELSE LET l == Head(lines)
           playerKey == <<l.name, l.team>>
           old == IF playerKey \in DOMAIN players THEN players[playerKey] ELSE ZeroStats
       IN parseLines(Tail(lines),
                     [k \in DOMAIN players \cup {playerKey} |->
                        IF k = playerKey THEN parseLine(old, l) ELSE players[k]])

\* a bonus given only above the threshold
BonusAbove(yards, threshold, bonus) == IF yards > threshold THEN bonus ELSE 0

\* if (yards >= threshold) points += bonus
Bonus(yards, threshold, bonus) == IF yards >= threshold THEN bonus ELSE 0

\* the sum of the points of a player, in hundredths
Points(st) ==
    st.passing_yards * SCORING.passing_yards
  + st.passing_tds * SCORING.passing_td
  + st.interceptions * SCORING.interception
  + Bonus(st.passing_yards, 300, SCORING.passing_300_bonus)
  + st.rushing_yards * SCORING.rushing_yards
  + st.rushing_tds * SCORING.rushing_td
  + Bonus(st.rushing_yards, 100, SCORING.rushing_100_bonus)
  + st.receptions * SCORING.reception
  + st.receiving_yards * SCORING.receiving_yards
  + st.receiving_tds * SCORING.receiving_td
  + Bonus(st.receiving_yards, 100, SCORING.receiving_100_bonus)

\* Math.round(points * 10) / 10, in tenths of a point: Math.round(x) is the
\* largest integer that is at most x + 0.5
RoundToTenths(h) == (h + 5) \div 10

\* parsePlayerStats(gameData): no players without boxscore.players; else the
\* players of the athlete lines, each with its stats and its points
parsePlayerStats(gameData) ==
  IF gameData.tag = "noboxscore" THEN NoPlayers
  ELSE LET players == parseLines(gameData.lines, [k \in {} |-> ZeroStats])
       IN [k \in DOMAIN players |->
             [name |-> k[1], team |-> k[2], stats |-> players[k],
              points |-> RoundToTenths(Points(players[k]))]]

\* an assignment that replaces the target by the source
Replaced(target, source) == source

\* Object.assign(target, source): the keys of source are set in target
ObjectAssign(target, source) ==
  [k \in DOMAIN target \cup DOMAIN source |->
     IF k \in DOMAIN source THEN source[k] ELSE target[k]]

\* the two responses of handleLiveScores
LiveScores(players, gs, final) ==
  jsonResponse([success |-> TRUE, players |-> players,
                gamesCount |-> Len(gs), allGamesFinal |-> final,
                games |-> [i \in 1..Len(gs) |-> gs[i].id]], 200)
LiveScoresError(message) ==
  jsonResponse([success |-> FALSE, error |-> message], 500)

\* the feed has not been asked
FeedUnused ==
  /\ scoreboard = NoScoreboard
  /\ summaries = [i \in 1..MaxEvents |-> NoSummary]
  /\ feedPc = "unused"
  /\ games = << >>
  /\ allGamesFinal = TRUE
  /\ nextGame = 0
  /\ allPlayerStats = NoPlayers
  /\ feedResp = NoResp

\* a request for /api/live-scores has arrived
FeedStarted ==
  /\ feedPc = "start"
  /\ games = << >>
  /\ allGamesFinal = TRUE
  /\ nextGame = 0
  /\ allPlayerStats = NoPlayers
  /\ feedResp = NoResp

\* the scoreboard has been fetched and read, or has failed: on failure the
\* outer catch answers 500; otherwise the league games are collected, and
\* with no league game the response is returned at once
handleLiveScores ==
  /\ feedPc = "start"
  /\ IF scoreboard.tag \in ScoreboardFailures
       THEN /\ feedResp' = LiveScoresError(scoreboard.tag)
            /\ feedPc' = "done"
            /\ UNCHANGED <<games, allGamesFinal, nextGame, allPlayerStats>>
       ELSE /\ games' = leagueGames(scoreboard.events, 1)
            /\ allGamesFinal' = (\A i \in 1..Len(games') : games'[i].isComplete)
            /\ UNCHANGED allPlayerStats
            /\ IF games' = << >>
                 THEN /\ feedResp' = LiveScores(allPlayerStats, games', allGamesFinal')
                      /\ feedPc' = "done"
                      /\ UNCHANGED nextGame
                 ELSE /\ feedResp' = feedResp
                      /\ feedPc' = "summary"
                      /\ nextGame' = 1
  /\ UNCHANGED <<scoreboard, summaries>>
  /\ UNCHANGED roomVars

\* the summary of the next game has been fetched and read, or has failed: on
\* failure the inner catch logs and goes on; otherwise its players are
\* assigned to allPlayerStats; after the last game the response is returned
fetchSummary ==
  /\ feedPc = "summary"
  /\ allPlayerStats' =
       IF summaries[games[nextGame].id].tag \in SummaryFailures
         THEN allPlayerStats
         ELSE ObjectAssign(allPlayerStats, parsePlayerStats(summaries[games[nextGame].id]))
  /\ IF nextGame = Len(games)
       THEN /\ feedResp' = LiveScores(allPlayerStats', games, allGamesFinal)
            /\ feedPc' = "done"
            /\ UNCHANGED nextGame
       ELSE /\ feedResp' = feedResp
            /\ feedPc' = "summary"
            /\ nextGame' = nextGame + 1
  /\ UNCHANGED <<scoreboard, summaries, games, allGamesFinal>>
  /\ UNCHANGED roomVars

FeedNext == handleLiveScores \/ fetchSummary

\* ------------------------------------------------------------------ the room

Init == RoomInit /\ FeedUnused

Next ==
  \/ Tick
  \/ \E r \in Requests : fetchGet(r)
  \/ \E r \in Requests : handleGetTeams(r)
  \/ \E r \in Requests : handleGetUpdatedAt(r)
  \/ \E r \in Requests : fetchPost(r)
  \/ \E r \in Requests, b \in Bodies : handlePostJson(r, b)
  \/ \E r \in Requests : handlePostPutUpdatedAt(r)
  \/ \E r \in Requests : handlePostBroadcast(r)
  \/ \E r \in Requests, c \in Channels : fetchStream(r, c)
  \/ \E c \in Channels : Consume(c)
  \/ \E r \in Requests : handleStreamWritten(r)
  \/ \E c \in Channels : heartbeatTick(c)
  \/ \E c \in Channels : Abort(c)
  \/ \E c \in Channels : ChannelFail(c)
  \/ \E r \in Requests, m \in Methods, p \in Paths : fetchRefused(r, m, p)

Spec == Init /\ [][Next]_vars

\* a handler goes on once the promise it awaits has settled: a storage
\* operation settles, a request body ends up read or refused, and the reader
\* of a response takes the chunks it is offered as long as its connection
\* stands.  Nothing makes a client open, abort or break a connection, the
\* clock tick or a timer fire.
HandlerStep(r) ==
  \/ handleGetTeams(r)
  \/ handleGetUpdatedAt(r)
  \/ \E b \in Bodies : handlePostJson(r, b)
  \/ handlePostPutUpdatedAt(r)
  \/ handlePostBroadcast(r)
  \/ handleStreamWritten(r)

\* one request for /api/live-scores, served by the worker without the room
\* what ESPN will answer is drawn: any scoreboard, and for each event any
\* summary
FeedInit ==
  /\ RoomInit
  /\ scoreboard \in Scoreboards
  /\ summaries \in
       {f \in [1..MaxEvents -> UNION {SummariesOf(i, FeedStats) : i \in 1..MaxEvents}] :
          \A i \in 1..MaxEvents : f[i] \in SummariesOf(i, FeedStats)}
  /\ FeedStarted
Feed == FeedInit /\ [][FeedNext]_vars

\* one finished game of two league teams with one player, whose stat line is
\* drawn from PointsStats
ScoringInit ==
  /\ RoomInit
  /\ scoreboard = [tag |-> "ok",
                   events |-> <<[teams |-> <<"GB", "DET">>, completed |-> TRUE]>>]
  /\ summaries \in
       {[i \in 1..MaxEvents |->
           IF i = 1 THEN Summary("ok", Boxscore(1, "GB", st))
                    ELSE Summary("noboxscore", << >>)] : st \in PointsStats}
  /\ FeedStarted
Scoring == ScoringInit /\ [][FeedNext]_vars

FairSpec ==
  /\ Spec
  /\ \A r \in Requests : WF_vars(HandlerStep(r))
  /\ \A c \in Channels : WF_vars(Consume(c))

\* ------------------------------------------------------------------ properties

\* no handler waits on state.storage: the states in which the room takes a
\* request, a body, a settled write, a timer or an abort
Settled == \A r \in Requests : pc[r] \notin StorageWaits

\* the accepted write number i as a document; the place of request r in the log
LogPair(i) == [teams |-> log[i].teams, updatedAt |-> log[i].updatedAt]
LogIndex(r) == CHOOSE i \in 1..Len(log) : log[i].by = r
Accepted == {log[i].by : i \in 1..Len(log)}

Gets == {r \in Requests : kind[r] = "GET" /\ pc[r] = "done"}
Posts200 == {r \in Requests : kind[r] = "POST" /\ pc[r] = "done" /\ resp[r].status = 200}

\* C1: a GET answered after an accepted POST {teams: T} has completed, with no
\* other accepted POST in between, returns 200 and a document whose teams is
\* T, element for element in the order T was posted.
C1_PostThenGet ==
  \A r \in Gets :
    answeredAt[r] >= 1 =>
      /\ pc[log[answeredAt[r]].by] = "done"
      /\ resp[r].status = 200
      /\ resp[r].doc # Undefined
      /\ resp[r].doc[1].teams = log[answeredAt[r]].teams

C1_Witness ==
  \E r \in Gets :
    /\ answeredAt[r] >= 1
    /\ log[answeredAt[r]].teams = <<2, 1>>
    /\ resp[r].doc[1].teams = <<2, 1>>

\* C2: a POST whose body is no JSON, or whose teams is absent or no array, is
\* answered 400 (with the error of its case) in the step that reads its body,
\* and that step changes neither
\* the storage, nor this.teams and this.updatedAt, nor the set of writers, nor
\* the chunks written to any writer.
C2_RejectedPostChangesNothing ==
  [][\A r \in Requests :
       (pc[r] = "post_json" /\ pc'[r] # "post_json" /\ body'[r].tag # "array") =>
         /\ pc'[r] = "done"
         /\ resp'[r] = [status |-> 400,
                         doc |-> Some(IF body'[r].tag = "badjson"
                                        THEN InvalidJson ELSE InvalidPayload)]
         /\ UNCHANGED <<storage, teams, updatedAt, sessions, frames, attempts, log>>]_vars

C2_Witness ==
  \E r \in Requests :
    /\ kind[r] = "POST"
    /\ resp[r].status = 400
    /\ body[r].tag = "string"
    /\ storage.teams = Some(<<2, 1>>)
    /\ sessions # {}

\* C3: no partial write is observable.  Every document a GET returned is the
\* pair of one accepted write, or the default document (teams = []) when no
\* write had been accepted; and whenever the room can serve a reader, the two
\* storage keys and the in-memory document hold the pair of one accepted write
\* (or nothing has been written).
C3_NoPartialWrite ==
  /\ \A r \in Gets :
       IF answeredAt[r] = 0
         THEN resp[r].doc[1].teams = << >>
         ELSE \E i \in 1..Len(log) : resp[r].doc[1] = LogPair(i)
  /\ Settled =>
       IF log = << >>
         THEN storage = [teams |-> Undefined, updatedAt |-> Undefined] /\ teams = << >>
         ELSE \E i \in 1..Len(log) :
                /\ storage = [teams |-> Some(log[i].teams),
                              updatedAt |-> Some(log[i].updatedAt)]
                /\ buildPayload = LogPair(i)

\* a GET was answered while a POST, arrived before it, was still in progress
C3_Witness ==
  \E g \in Gets, p \in Requests :
    /\ p < g
    /\ pc[p] = "post_json"
    /\ answeredAt[g] >= 1
    /\ resp[g].doc[1] = LogPair(answeredAt[g])
    /\ now > log[answeredAt[g]].updatedAt

\* C4: an accepted POST persists, broadcasts and returns one and the same
\* document: the teams it submitted with the timestamp it stamped, whatever
\* other requests are in flight.
C4_UpdateNotInterleaved ==
  /\ \A r \in Posts200 :
       /\ r \in Accepted
       /\ persisted[r] = [teams |-> Some(LogPair(LogIndex(r)).teams),
                          updatedAt |-> Some(LogPair(LogIndex(r)).updatedAt)]
       /\ published[r] = Some(LogPair(LogIndex(r)))
       /\ resp[r].doc = Some(LogPair(LogIndex(r)))
  /\ \A c \in Channels : \A i \in 1..Len(frames[c]) :
       frames[c][i].kind = "broadcast" =>
         /\ frames[c][i].by \in Accepted
         /\ frames[c][i].doc = Some(LogPair(LogIndex(frames[c][i].by)))

\* two accepted POSTs overlapped (the one that arrived later was accepted
\* first), submitted different teams, and a writer got the later broadcast
C4_Witness ==
  \E a \in Posts200, b \in Posts200 :
    /\ a < b
    /\ LogIndex(b) < LogIndex(a)
    /\ log[LogIndex(a)].teams # log[LogIndex(b)].teams
    /\ \E c \in Channels : \E i \in 1..Len(frames[c]) :
         frames[c][i].kind = "broadcast" /\ frames[c][i].by = a

\* the step in which the POST r broadcasts and returns
Broadcasts(r) == pc[r] = "post_put_updatedAt" /\ pc'[r] = "done"

\* a writer whose client is gone: its connection was aborted, or its stream
\* has failed or has been closed; and one whose client went before request r
\* reached the room
Gone(c) == aborted[c] \/ chan[c] \in {"errored", "closed"}
GoneBefore(c, r) == goneAt[c] # 0 /\ goneAt[c] < r

\* C5: when an accepted POST broadcasts, every open channel gets exactly one
\* new data frame, the same for all, carrying the updated document; a channel
\* closed before the POST arrived gets no frame and is not in the active set
\* after it.
C5_FanOut ==
  [][\A r \in Requests : Broadcasts(r) =>
       \A c \in Channels :
         /\ (c \in sessions /\ ~Gone(c)) =>
              frames'[c] = Append(frames[c],
                                  DataFrame("broadcast", LogPair(LogIndex(r)), r))
         /\ GoneBefore(c, r) =>
              (frames'[c] = frames[c] /\ c \notin sessions')]_vars

\* the broadcast frames of a writer, as the places of its chunks
BroadcastAt(c) == {i \in 1..Len(frames[c]) : frames[c][i].kind = "broadcast"}

C7_FirstFrameEqualsGet ==
  Settled => buildPayload = [teams |-> loadTeams, updatedAt |-> loadUpdatedAt]

\* C8: once the connection of a writer has been aborted, the writer is out of
\* the active set and no broadcast or heartbeat calls write on it.
C8_AbortRemovesChannel ==
  [][\A c \in Channels :
       aborted'[c] => (c \notin sessions' /\ attempts'[c] = attempts[c])]_vars

\* C9: when a broadcast write to a channel fails (at once, on a stream that has
\* failed, or later, when the stream fails with the write unsettled), that
\* channel leaves the active set, every other active channel keeps its place
\* and gets the frame, and the POST returns 200 with the saved document.
C9_FailedWriteDropsOnlyThatChannel ==
  [][/\ \A r \in Requests : Broadcasts(r) =>
          /\ resp'[r] = [status |-> 200, doc |-> Some(LogPair(LogIndex(r)))]
          /\ \A c \in sessions :
               IF Writable(c)
                 THEN /\ c \in sessions'
                      /\ frames'[c] = Append(frames[c],
                             DataFrame("broadcast", LogPair(LogIndex(r)), r))
                 ELSE c \notin sessions' /\ frames'[c] = frames[c]
     /\ \A c \in Channels :
          (/\ chan[c] = "open" /\ chan'[c] = "errored"
           /\ \E f \in Unconsumed(c) : f.kind = "broadcast") =>
            /\ sessions' = sessions \ {c}
            /\ frames' = frames
            /\ \A r \in Requests : kind[r] = "POST" => resp'[r] = resp[r]]_vars

\* a broadcast write to a failed stream was rejected (no abort, no heartbeat:
\* only broadcast removed the writer), another writer got the frame, 200
C9_Witness ==
  \E r \in Posts200 : \E c \in Channels, d \in Channels :
    /\ chan[c] = "errored" /\ ~aborted[c] /\ beats = 0
    /\ c \notin sessions
    /\ attempts[c] > Len(frames[c])
    /\ d \in sessions
    /\ \E i \in BroadcastAt(d) : frames[d][i].by = r

\* C10: once an accepted write has completed, the persisted updatedAt is the
\* reading of the server clock taken when the most recent accepted write was
\* stamped; it is never the updatedAt of a request body.
C10_UpdatedAtIsLastStamp ==
  /\ storage.updatedAt # Some(ClientStamp)
  /\ (Settled /\ log # << >>) => storage.updatedAt = Some(log[Len(log)].updatedAt)

\* a default document was read at time 0, a write was stamped at 0, and the
\* last write, whose body carried its own updatedAt, was stamped later
C10_Witness ==
  /\ Settled
  /\ Len(log) = 2
  /\ log[1].updatedAt < log[2].updatedAt
  /\ body[log[2].by].updatedAt = Some(ClientStamp)
  /\ \E g \in Gets : answeredAt[g] = 0

\* C11: across accepted POSTs, in the order the writes were accepted, the
\* updatedAt of the documents they return and persist never decreases,
\* whatever GET and stream requests ran in between.
C11_UpdatedAtMonotone ==
  \A a \in Posts200, b \in Posts200 :
    LogIndex(a) < LogIndex(b) =>
      /\ resp[a].doc[1].updatedAt <= resp[b].doc[1].updatedAt
      /\ persisted[a].updatedAt[1] <= persisted[b].updatedAt[1]

\* two accepted POSTs returned different stamps, a GET and a stream having
\* run between them, and the later one's body carried an updatedAt of its own
C11_Witness ==
  \E a \in Posts200, b \in Posts200 :
    /\ LogIndex(a) < LogIndex(b)
    /\ resp[a].doc[1].updatedAt < resp[b].doc[1].updatedAt
    /\ body[b].updatedAt = Some(ClientStamp)
    /\ \E g \in Requests : a < g /\ g < b /\ kind[g] \in {"GET", "STREAM"}

\* the methods each path serves
Served(m, p) == (p = "/api/data" /\ m \in {"GET", "POST"}) \/ (p = "/api/stream" /\ m = "GET")

\* the step in which request r reaches the room
Arrives(r) == pc[r] = "idle" /\ pc'[r] # "idle"

\* C12: a request to /api/data or /api/stream with a method the path does not
\* serve is answered 405 on arrival, and that step changes neither the
\* storage, nor the in-memory document, nor the active set, nor any frame.
C12_UnsupportedMethodIs405 ==
  [][\A r \in Requests :
       (Arrives(r) /\ request'[r].path \in Paths
          /\ ~Served(request'[r].method, request'[r].path)) =>
         /\ resp'[r].status = 405
         /\ UNCHANGED <<storage, teams, updatedAt, sessions, frames>>]_vars

\* a step of handleGet for request r: one of its two storage reads settles
GetStep(r) == pc[r] \in {"get_teams", "get_updatedAt"} /\ pc'[r] # pc[r]

\* C15: GET /api/data has no side effects: no step of handleGet changes the
\* persisted teams and updatedAt, the in-memory document that first frames and
\* broadcasts are built from, or the active set; also with nothing persisted
\* and also while a POST is in progress.
C15_GetHasNoSideEffects ==
  [][\A r \in Requests :
       GetStep(r) => UNCHANGED <<storage, teams, updatedAt, sessions>>]_vars

\* the step in which the heartbeat timer of writer c fires
Beats(c) == beats' = beats + 1 /\ attempts'[c] = attempts[c] + 1

\* C16: a failed heartbeat write drops the channel, as a failed broadcast
\* write does: when the keep-alive write is rejected (at once, on a stream
\* that has failed, or later, when the stream fails with the keep-alive
\* unsettled), the writer is out of the active set.
C16_FailedHeartbeatDropsChannel ==
  [][\A c \in Channels :
       /\ (Beats(c) /\ ~Writable(c)) => c \notin sessions'
       /\ (/\ chan[c] = "open" /\ chan'[c] = "errored"
           /\ \E f \in Unconsumed(c) : f.kind = "keepalive") => c \notin sessions']_vars

\* C19: the heartbeat timer of a channel runs only while the channel is in the
\* active set: a writer removed from the set, by abort or by a failed
\* broadcast write, has no timer left, so no keep-alive write is attempted on
\* it.
C19_TimerOnlyWhileActive ==
  \A c \in Channels : heartbeat[c] => c \in sessions

\* no request is in progress: each has not arrived or has its response
Idle == \A r \in Requests : pc[r] \in {"idle", "done", "failed"}

\* C20: whenever no request is in progress and at least one write has been
\* accepted, the in-memory document equals the persisted document.
C20_MemoryEqualsStorage ==
  (Idle /\ log # << >>) =>
    storage = [teams |-> Some(teams), updatedAt |-> Some(updatedAt)]

\* two writes with different teams were accepted at different times, a GET
\* was answered between them, and all is idle
C20_Witness ==
  /\ Idle
  /\ Len(log) = 2
  /\ log[1].teams # log[2].teams
  /\ log[1].updatedAt # log[2].updatedAt
  /\ \E g \in Gets : answeredAt[g] = 1 /\ log[1].by < g /\ g < log[2].by

\* the stream requests that have opened a channel
Streams == {r \in Requests : kind[r] = "STREAM"}

\* C17: the first frame of a channel is a consistent snapshot: it is the pair
\* of the last write accepted before the stream was opened (when there is
\* one), and every broadcast the channel gets is of a write accepted after
\* that, so no channel gets the document of one update as its first frame and
\* once more as that update's broadcast.
C17_FirstFrameNotRepeated ==
  \A r \in Streams :
    /\ answeredAt[r] >= 1 =>
         frames[writerOf[r]][1].doc = Some(LogPair(answeredAt[r]))
    /\ \A i \in BroadcastAt(writerOf[r]) :
         LogIndex(frames[writerOf[r]][i].by) > answeredAt[r]

\* a stream was opened after one write and while a later POST, arrived before
\* it, was still in progress; the channel got that POST's broadcast, whose
\* document differs from its first frame
C17_Witness ==
  \E r \in Streams : \E i \in BroadcastAt(writerOf[r]) :
    /\ answeredAt[r] >= 1
    /\ frames[writerOf[r]][i].by < r
    /\ frames[writerOf[r]][i].doc # frames[writerOf[r]][1].doc

\* C18: under fair scheduling every request the room has started to handle
\* gets its response, and a channel whose client is gone leaves the active
\* set.
C18_EveryRequestAnswered ==
  /\ \A r \in Requests : Started(r) ~> (resp[r].status # 0)
  /\ \A c \in Channels : Gone(c) ~> (c \notin sessions)

\* the top-level scoreboard fetch or parse fails: the fetch rejects, the body
\* is no JSON, or the JSON cannot be walked as a scoreboard
ScoreboardFails == scoreboard.tag \in ScoreboardFailures

\* the events of the scoreboard that are league games, and those of them
\* whose summary was fetched and read with its athlete lines
LeagueEvents == {i \in 1..Len(scoreboard.events) : IsLeagueGame(scoreboard.events[i])}
ReadEvents == {i \in LeagueEvents : summaries[i].tag = "ok"}

\* C13: GET /api/live-scores fails (500, success false, an error message, no
\* players key) exactly when the top-level scoreboard fetch or parse fails; a
\* failure of one game's summary never fails the request: the response is 200
\* with success true and the players of exactly the games whose summary was
\* read.
C13_FeedFailsOnlyWithScoreboard ==
  feedPc = "done" =>
    IF ScoreboardFails
      THEN /\ feedResp.status = 500
           /\ feedResp.doc[1].success = FALSE
           /\ "error" \in DOMAIN feedResp.doc[1]
           /\ "players" \notin DOMAIN feedResp.doc[1]
      ELSE /\ feedResp.status = 200
           /\ feedResp.doc[1].success = TRUE
           /\ DOMAIN feedResp.doc[1].players = {<<i, "GB">> : i \in ReadEvents}
           /\ feedResp.doc[1].gamesCount = Cardinality(LeagueEvents)

\* two league games, the summary of the first could not be fetched, the
\* second was read: 200 with the player of the second game alone
C13_Witness ==
  /\ feedPc = "done"
  /\ LeagueEvents = {1, 2}
  /\ summaries[1].tag = "unreachable"
  /\ summaries[2].tag = "ok"
  /\ feedResp.status = 200
  /\ DOMAIN feedResp.doc[1].players = {<<2, "GB">>}

\* the formula of the scoring rules, in hundredths of a point: 0.04 per
\* passing yard, 4 per passing TD, -1 per interception, 0.1 per rushing or
\* receiving yard, 6 per rushing or receiving TD, 0.5 per reception, and 3 for
\* each threshold reached
Formula(st) ==
    4 * st.passing_yards + 400 * st.passing_tds - 100 * st.interceptions
  + 10 * (st.rushing_yards + st.receiving_yards)
  + 600 * (st.rushing_tds + st.receiving_tds)
  + 50 * st.receptions
  + 300 * Cardinality({y \in {"passing", "rushing", "receiving"} :
                         \/ y = "passing" /\ st.passing_yards >= 300
                         \/ y = "rushing" /\ st.rushing_yards >= 100
                         \/ y = "receiving" /\ st.receiving_yards >= 100})

\* h hundredths rounded to one decimal place: the number of tenths nearest to it
Distance(a, b) == IF a >= b THEN a - b ELSE b - a
OneDecimal(h) == CHOOSE t \in (0 - 100)..2000 : Distance(10 * t, h) <= 5

\* the player of the one game of a run of the scoring, as the response reports it
Scored == feedResp.doc[1].players[<<1, "GB">>]

\* C14: the points of a player with non-negative integer stats are the
\* formula of the scoring rules rounded to one decimal place; 320 passing
\* yards, 2 passing TDs and 1 interception give 22.8, and 5 receptions, 100
\* receiving yards and 1 receiving TD give 21.5.
C14_PointsFollowFormula ==
  feedPc = "done" =>
    /\ 10 * Scored.points - Formula(Scored.stats) \in (0 - 5)..5
    /\ Scored.points = OneDecimal(Formula(Scored.stats))
    /\ Scored.stats = Quarterback => Scored.points = 228
    /\ Scored.stats = Receiver => Scored.points = 215

\* a receiver with exactly 100 receiving yards got the bonus: 21.5
C14_Witness ==
  /\ feedPc = "done"
  /\ Scored.stats = Receiver
  /\ Scored.points = 215
====
